---- MODULE Spec2Model ----
(***************************************************************************)
(* Model of the per-station RFID client of src/client.go: the actor loop   *)
(* Client.Run, the handshake task Client.initRFID, the device reader task  *)
(* Client.readFromRFID and the UI reader task Client.readFromKoha, with    *)
(* the three channels fromKoha, fromRFID and quit between them.            *)
(*                                                                         *)
(* Strings that the code takes apart (barcodes) are sequences of           *)
(* one-character strings; all others are TLA+ strings.                     *)
(***************************************************************************)
EXTENDS Integers, Sequences, FiniteSets, TLC

(* ---------------- bounds of the model ---------------- *)
\* number of UI messages readFromKoha reads over one run
MaxKoha == 2
\* number of frames readFromRFID reads over one run
MaxFrames == 3
\* largest capacity tried for the inbox channels fromKoha / fromRFID
MaxInboxCap == 1
\* largest capacity tried for the quit channel
MaxQuitCap == 1
MaxBarcodeLen == 4      \* longest barcode of the normalization's specification

(* ---------------- values ---------------- *)
RFIDIdle == "RFIDIdle"
RFIDCheckinWaitForBegOK == "RFIDCheckinWaitForBegOK"
RFIDCheckin == "RFIDCheckin"
RFIDWaitForCheckinAlarmLeave == "RFIDWaitForCheckinAlarmLeave"
RFIDWaitForCheckinAlarmOn == "RFIDWaitForCheckinAlarmOn"
RFIDWaitForEndOK == "RFIDWaitForEndOK"

cmdInitVersion == "cmdInitVersion"
cmdBeginScan == "cmdBeginScan"
cmdAlarmLeave == "cmdAlarmLeave"
cmdAlarmOn == "cmdAlarmOn"

\* the commands Run sends while a scan session is being started or is active
ScanCmds == {cmdBeginScan, cmdAlarmLeave, cmdAlarmOn}
AlarmCmds == {cmdAlarmLeave, cmdAlarmOn}

NoBarcode == << >>
\* barcodes as the device reports them
Barcodes == { <<"1", "0", "A">>, <<"1", "0">> }
Tags == {"T1", "T2"}
Branches == {"B1"}

\* a normalization removing every leading "10", not only the first
RECURSIVE stripLeading10_All(_)
stripLeading10_All(barcode) ==
    IF Len(barcode) >= 2 /\ barcode[1] = "1" /\ barcode[2] = "0"
    THEN stripLeading10_All(SubSeq(barcode, 3, Len(barcode)))
    ELSE barcode

\* strings.TrimPrefix(barcode, "10")
stripLeading10(barcode) ==
    IF Len(barcode) >= 2 /\ barcode[1] = "1" /\ barcode[2] = "0"
    THEN SubSeq(barcode, 3, Len(barcode))
    ELSE barcode

NormBarcodes == { stripLeading10(b) : b \in Barcodes }

\* Message, reduced to the fields the client reads or writes
Msg(action, branch, barcode, unknown, failed, rfidError, sipError) ==
    [Action |-> action, Branch |-> branch, Barcode |-> barcode,
     Unknown |-> unknown, TransactionFailed |-> failed,
     RFIDError |-> rfidError, SIPError |-> sipError]

ZeroMessage == Msg("", "", NoBarcode, FALSE, FALSE, FALSE, FALSE)

\* the messages the UI sends (readFromKoha's json.Unmarshal results)
KohaMsgs ==
    { Msg("CHECKIN", b, NoBarcode, FALSE, FALSE, FALSE, FALSE) : b \in Branches }
    \cup { Msg(a, "", NoBarcode, FALSE, FALSE, FALSE, FALSE) :
             a \in {"END", "CHECKOUT"} }
    \cup { Msg(a, "", k, FALSE, FALSE, FALSE, FALSE) :
             a \in {"RETRY-ALARM-ON", "RETRY-ALARM-OFF"}, k \in NormBarcodes }

\* RFIDResp
Resp(ok, barcode, tag) == [OK |-> ok, Barcode |-> barcode, Tag |-> tag]

\* RFIDReq: the command, annotated with the normalized barcode and the tag id
\* of the scan it is sent for (the request itself carries only Cmd)
RFIDReq(cmd, key, tag) == [Cmd |-> cmd, key |-> key, tag |-> tag]
NoReq == RFIDReq("", NoBarcode, "")

\* a frame on the device socket: the response, and the request it answers
\* (NoReq for a scan event)
Frame(resp, re) == [resp |-> resp, re |-> re]
NoFrame == Frame(Resp(FALSE, NoBarcode, ""), NoReq)

\* the (unknown, transaction failed) flags of the items the backend returns
ItemFlags == { <<FALSE, FALSE>>, <<TRUE, FALSE>>, <<FALSE, TRUE>> }

\* results of DoSIPCall for a query about barcode: an error with no item, or
\* an item carrying the barcode (as sent or normalized) and its two flags
SIPOutcomes(barcode) ==
    { [err |-> TRUE, msg |-> ZeroMessage] }
    \cup { [err |-> FALSE, msg |-> Msg("", "", bc, fl[1], fl[2], FALSE, FALSE)] :
             bc \in {barcode, stripLeading10(barcode)}, fl \in ItemFlags }

\* Go maps: functions on the set of their keys
EmptyMap == [k \in {} |-> ""]
MapPut(m, k, v) == [x \in (DOMAIN m) \cup {k} |-> IF x = k THEN v ELSE m[x]]

\* one step of a handler of Run: a write to the UI ("ui", the action), a
\* backend call ("sip", the query, its barcode), a call of sendToRFID ("rfid"
\* written, "rfidErr" write failed, "rfidNil" no connection; the command, the
\* barcode it is for), a send on c.quit ("quit"), or the failure of the
\* backend call just made ("sipErr")
Event(kind, what, arg) == [kind |-> kind, what |-> what, arg |-> arg]

(* ---------------- state ---------------- *)
VARIABLES
    state,          \* c.state
    branch,         \* c.branch
    current,        \* c.current
    items,          \* c.items
    failedAlarmOn,  \* c.failedAlarmOn
    failedAlarmOff, \* c.failedAlarmOff
    rfidconn,       \* c.rfidconn: "nil", "open"
    synced,         \* Run has received from a channel written after c.rfidconn was set
    conn,           \* c.conn: "open", "closeSent" (close frame written), "closed"
    toKoha,         \* how many of each message have been written to the UI socket
    fromKoha,       \* buffer of channel c.fromKoha
    fromRFID,       \* buffer of channel c.fromRFID
    quit,           \* number of values buffered in channel c.quit
    inboxCap,       \* capacity of c.fromKoha and of c.fromRFID
    quitCap,        \* capacity of c.quit
    runPc,          \* Run: "loop", "blocked" (on its own c.quit <- true), "exited", "panicked"
    initPc,         \* initRFID: "dial", "version", "read", "notify" (in sendToKoha of
                    \* CONNECT), "report" (in sendToKoha of the error), "quit", "done"
    initError,      \* initRFID's initError is set
    kohaPc,         \* readFromKoha: "read", "send" (at c.fromKoha <- msg), "done"
    rfidPc,         \* readFromRFID: "off", "read", "send", "report" (in sendToKoha
                    \* of the error), "quit", "done"
    rfidResp,       \* the frame readFromRFID has read and is sending
    devQueue,       \* commands written to the device socket and not yet answered
    devScanning,    \* the device has acknowledged begin-scan
    nKoha,          \* UI messages read so far
    nFrames,        \* device frames read so far
    last            \* what Run's last select case handled, and what it did

vars == << state, branch, current, items, failedAlarmOn, failedAlarmOff,
           rfidconn, synced, conn, toKoha, fromKoha, fromRFID, quit,
           inboxCap, quitCap, runPc, initPc, initError, kohaPc,
           rfidPc, rfidResp, devQueue, devScanning, nKoha, nFrames, last >>

actorVars == << state, branch, current, items, failedAlarmOn, failedAlarmOff >>

NoLast == [src |-> "none", msg |-> ZeroMessage, resp |-> NoFrame.resp,
           re |-> NoReq, pre |-> RFIDIdle, trace |-> << >>]

Alive == runPc # "panicked"

ConnectRFIDError == Msg("CONNECT", "", NoBarcode, FALSE, FALSE, TRUE, FALSE)
ConnectSIPError == Msg("CONNECT", "", NoBarcode, FALSE, FALSE, FALSE, TRUE)
CheckinSIPError == Msg("CHECKIN", "", NoBarcode, FALSE, FALSE, FALSE, TRUE)
ConnectOK == Msg("CONNECT", "", NoBarcode, FALSE, FALSE, FALSE, FALSE)

UIMsgs == {ConnectRFIDError, ConnectSIPError, CheckinSIPError, ConnectOK}

\* sendToKoha as seen on the socket: the message goes out unless NextWriter fails
KohaWrite(sent, msg) ==
    IF conn = "open" THEN [sent EXCEPT ![msg] = @ + 1] ELSE sent

Init ==
    /\ state = RFIDIdle
    /\ branch = ""
    /\ current = ZeroMessage
    /\ items = EmptyMap
    /\ failedAlarmOn = EmptyMap
    /\ failedAlarmOff = EmptyMap
    /\ rfidconn = "nil"
    /\ synced = FALSE
    /\ conn = "open"
    /\ toKoha = [msg \in UIMsgs |-> 0]
    /\ fromKoha = << >>
    /\ fromRFID = << >>
    /\ quit = 0
    /\ inboxCap \in 0..MaxInboxCap
    /\ quitCap \in 0..MaxQuitCap
    /\ runPc = "loop"
    /\ initPc = "dial"
    /\ initError = FALSE
    /\ kohaPc = "read"
    /\ rfidPc = "off"
    /\ rfidResp = NoFrame
    /\ devQueue = << >>
    /\ devScanning = FALSE
    /\ nKoha = 0
    /\ nFrames = 0
    /\ last = NoLast

(* ---------------- the actor's handlers ---------------- *)
\* The part of the state a handler of Run can change, as one record.
Machine ==
    [state |-> state, branch |-> branch, current |-> current, items |-> items,
     failedAlarmOn |-> failedAlarmOn, failedAlarmOff |-> failedAlarmOff,
     toKoha |-> toKoha, quit |-> quit, devQueue |-> devQueue,
     runPc |-> runPc, trace |-> << >>]

\* Client.sendToKoha called from Run
sendToKoha(m, msg) ==
    [m EXCEPT !.toKoha = KohaWrite(@, msg),
              !.trace = Append(@, Event("ui", msg.Action, NoBarcode))]

\* c.quit <- true executed by Run itself: it completes only into a free
\* buffer slot, since Run is the channel's only receiver
quitSend(m) ==
    IF m.quit < quitCap
    THEN [m EXCEPT !.quit = @ + 1, !.trace = Append(@, Event("quit", "sent", NoBarcode))]
    ELSE [m EXCEPT !.runPc = "blocked", !.trace = Append(@, Event("quit", "blocked", NoBarcode))]

\* what c.rfidconn.Write can do when Run calls it: a nil connection panics;
\* until Run has synchronised with the handshake task its read of c.rfidconn
\* races with the assignment in initRFID
WriteOutcomes ==
    IF rfidconn = "nil" THEN {"nil"}
    ELSE IF synced THEN {"ok", "err"}
    ELSE {"ok", "err", "nil"}

\* Client.sendToRFID
sendToRFID(m, req, w) ==
    CASE w = "nil" ->
           [m EXCEPT !.runPc = "panicked",
                     !.trace = Append(@, Event("rfidNil", req.Cmd, req.key))]
      [] w = "err" ->
           quitSend(sendToKoha([m EXCEPT !.trace = Append(@, Event("rfidErr", req.Cmd, req.key))],
                               ConnectRFIDError))
      [] OTHER ->
           [m EXCEPT !.devQueue = Append(@, req),
                     !.trace = Append(@, Event("rfid", req.Cmd, req.key))]

\* DoSIPCall returned err != nil: the "sipErr" event of the handler's trace
SIPFailed(m, query, barcode) ==
    [m EXCEPT !.trace = Append(@, Event("sipErr", query, barcode))]

\* the statements after a call that may have blocked or panicked
Then(m, next) == IF m.runPc = "loop" THEN next ELSE m

\* HandleKoha with a retry case that re-sends without looking the barcode up
HandleKoha_RetryNoLookup(m, msg, w) ==
    CASE msg.Action = "CHECKIN" ->
           sendToRFID([m EXCEPT !.state = RFIDCheckinWaitForBegOK,
                                !.branch = msg.Branch],
                      RFIDReq(cmdBeginScan, NoBarcode, ""), w)
      [] msg.Action = "END" ->
           [m EXCEPT !.state = RFIDWaitForEndOK]
      [] msg.Action = "RETRY-ALARM-ON" ->
           LET m1 == sendToRFID(m, RFIDReq(cmdAlarmOn, msg.Barcode, ""), w)
           IN  Then(m1, [m1 EXCEPT !.state = RFIDWaitForCheckinAlarmOn])
      [] OTHER -> m

\* Run, case msg := <-c.fromKoha
HandleKoha(m, msg, w) ==
    CASE msg.Action = "CHECKIN" ->
           sendToRFID([m EXCEPT !.state = RFIDCheckinWaitForBegOK,
                                !.branch = msg.Branch],
                      RFIDReq(cmdBeginScan, NoBarcode, ""), w)
      [] msg.Action = "END" ->
           [m EXCEPT !.state = RFIDWaitForEndOK]
      [] OTHER -> m

\* Run, case RFIDCheckinWaitForBegOK
HandleBegOK(m, resp) ==
    IF ~resp.OK
    THEN quitSend(sendToKoha(m, ConnectRFIDError))
    ELSE [m EXCEPT !.state = RFIDCheckin]

\* Run, case RFIDCheckin, if !resp.OK: lines 90-93
CheckinMissingTag(m, resp, w) ==
    LET key == stripLeading10(resp.Barcode)
        cur == [m.current EXCEPT !.Action = "CHECKIN"]
        m1 == [m EXCEPT !.current = cur, !.items = MapPut(@, key, cur)]
        m2 == sendToRFID(m1, RFIDReq(cmdAlarmLeave, key, resp.Tag), w)
    IN  Then(m2, [m2 EXCEPT !.state = RFIDWaitForCheckinAlarmLeave])

\* HandleCheckinNotOK comparing the barcode as scanned, prefix included
HandleCheckinNotOK_NoStrip(m, resp, sip, w) ==
    IF resp.Barcode # m.current.Barcode
    THEN LET m1 == [m EXCEPT !.current = sip.msg,
                             !.trace = Append(@, Event("sip", "itemStatus", resp.Barcode))]
         IN  IF sip.err
             THEN quitSend(sendToKoha(SIPFailed(m1, "itemStatus", resp.Barcode),
                                      ConnectSIPError))
             ELSE CheckinMissingTag(m1, resp, w)
    ELSE CheckinMissingTag(m, resp, w)

\* Run, case RFIDCheckin, if !resp.OK
HandleCheckinNotOK(m, resp, sip, w) ==
    IF stripLeading10(resp.Barcode) # m.current.Barcode
    THEN LET m1 == [m EXCEPT !.current = sip.msg,
                             !.trace = Append(@, Event("sip", "itemStatus", resp.Barcode))]
         IN  IF sip.err
             THEN quitSend(sendToKoha(SIPFailed(m1, "itemStatus", resp.Barcode),
                                      ConnectSIPError))
             ELSE CheckinMissingTag(m1, resp, w)
    ELSE CheckinMissingTag(m, resp, w)

\* HandleCheckinOK with the test of line 104 reduced to the Unknown flag
HandleCheckinOK_OnlyUnknown(m, resp, sip, w) ==
    LET key == stripLeading10(resp.Barcode)
        m1 == [m EXCEPT !.current = sip.msg,
                        !.trace = Append(@, Event("sip", "checkin", resp.Barcode))]
    IN  IF sip.err
        THEN sendToKoha(SIPFailed(m1, "checkin", resp.Barcode), CheckinSIPError)
        ELSE IF m1.current.Unknown
             THEN LET m2 == sendToRFID(m1, RFIDReq(cmdAlarmLeave, key, resp.Tag), w)
                  IN  Then(m2, [m2 EXCEPT !.state = RFIDWaitForCheckinAlarmLeave])
             ELSE LET m2 == [m1 EXCEPT !.items = MapPut(@, key, m1.current),
                                       !.failedAlarmOn = MapPut(@, key, resp.Tag)]
                      m3 == sendToRFID(m2, RFIDReq(cmdAlarmOn, key, resp.Tag), w)
                  IN  Then(m3, [m3 EXCEPT !.state = RFIDWaitForCheckinAlarmOn])

\* HandleCheckinOK treating a failed checkin call as lines 83-87 treat a
\* failed item-status query
HandleCheckinOK_QuitOnError(m, resp, sip, w) ==
    LET key == stripLeading10(resp.Barcode)
        m1 == [m EXCEPT !.current = sip.msg,
                        !.trace = Append(@, Event("sip", "checkin", resp.Barcode))]
    IN  IF sip.err
        THEN quitSend(sendToKoha(SIPFailed(m1, "checkin", resp.Barcode),
                                 CheckinSIPError))
        ELSE IF m1.current.Unknown \/ m1.current.TransactionFailed
             THEN LET m2 == sendToRFID(m1, RFIDReq(cmdAlarmLeave, key, resp.Tag), w)
                  IN  Then(m2, [m2 EXCEPT !.state = RFIDWaitForCheckinAlarmLeave])
             ELSE LET m2 == [m1 EXCEPT !.items = MapPut(@, key, m1.current),
                                       !.failedAlarmOn = MapPut(@, key, resp.Tag)]
                      m3 == sendToRFID(m2, RFIDReq(cmdAlarmOn, key, resp.Tag), w)
                  IN  Then(m3, [m3 EXCEPT !.state = RFIDWaitForCheckinAlarmOn])

\* HandleCheckinOK releasing the tag after a failed checkin call (the TODO of
\* line 101)
HandleCheckinOK_AlarmLeaveOnError(m, resp, sip, w) ==
    LET key == stripLeading10(resp.Barcode)
        m1 == [m EXCEPT !.current = sip.msg,
                        !.trace = Append(@, Event("sip", "checkin", resp.Barcode))]
    IN  IF sip.err \/ m1.current.Unknown \/ m1.current.TransactionFailed
        THEN LET m2 == IF sip.err
                       THEN sendToKoha(SIPFailed(m1, "checkin", resp.Barcode),
                                       CheckinSIPError)
                       ELSE m1
                 m3 == sendToRFID(m2, RFIDReq(cmdAlarmLeave, key, resp.Tag), w)
             IN  Then(m3, [m3 EXCEPT !.state = RFIDWaitForCheckinAlarmLeave])
        ELSE LET m2 == [m1 EXCEPT !.items = MapPut(@, key, m1.current),
                                  !.failedAlarmOn = MapPut(@, key, resp.Tag)]
                 m3 == sendToRFID(m2, RFIDReq(cmdAlarmOn, key, resp.Tag), w)
             IN  Then(m3, [m3 EXCEPT !.state = RFIDWaitForCheckinAlarmOn])

\* HandleCheckinOK without the c.items entry of line 108
HandleCheckinOK_NoItem(m, resp, sip, w) ==
    LET key == stripLeading10(resp.Barcode)
        m1 == [m EXCEPT !.current = sip.msg,
                        !.trace = Append(@, Event("sip", "checkin", resp.Barcode))]
    IN  IF sip.err
        THEN sendToKoha(SIPFailed(m1, "checkin", resp.Barcode), CheckinSIPError)
        ELSE IF m1.current.Unknown \/ m1.current.TransactionFailed
             THEN LET m2 == sendToRFID(m1, RFIDReq(cmdAlarmLeave, key, resp.Tag), w)
                  IN  Then(m2, [m2 EXCEPT !.state = RFIDWaitForCheckinAlarmLeave])
             ELSE LET m2 == [m1 EXCEPT !.failedAlarmOn = MapPut(@, key, resp.Tag)]
                      m3 == sendToRFID(m2, RFIDReq(cmdAlarmOn, key, resp.Tag), w)
                  IN  Then(m3, [m3 EXCEPT !.state = RFIDWaitForCheckinAlarmOn])

\* Run, case RFIDCheckin, else branch
HandleCheckinOK(m, resp, sip, w) ==
    LET key == stripLeading10(resp.Barcode)
        m1 == [m EXCEPT !.current = sip.msg,
                        !.trace = Append(@, Event("sip", "checkin", resp.Barcode))]
    IN  IF sip.err
        THEN sendToKoha(SIPFailed(m1, "checkin", resp.Barcode), CheckinSIPError)
        ELSE IF m1.current.Unknown \/ m1.current.TransactionFailed
             THEN LET m2 == sendToRFID(m1, RFIDReq(cmdAlarmLeave, key, resp.Tag), w)
                  IN  Then(m2, [m2 EXCEPT !.state = RFIDWaitForCheckinAlarmLeave])
             ELSE LET m2 == [m1 EXCEPT !.items = MapPut(@, key, m1.current),
                                       !.failedAlarmOn = MapPut(@, key, resp.Tag)]
                      m3 == sendToRFID(m2, RFIDReq(cmdAlarmOn, key, resp.Tag), w)
                  IN  Then(m3, [m3 EXCEPT !.state = RFIDWaitForCheckinAlarmOn])

\* Run, case resp := <-c.fromRFID
HandleRFID(m, resp, sip, w) ==
    CASE m.state = RFIDCheckinWaitForBegOK -> HandleBegOK(m, resp)
      [] m.state = RFIDCheckin ->
           IF ~resp.OK THEN HandleCheckinNotOK(m, resp, sip, w)
                       ELSE HandleCheckinOK(m, resp, sip, w)
      [] OTHER -> m

\* the variables a handler changes, from its result
Commit(m, src, msg, frame) ==
    /\ state' = m.state
    /\ branch' = m.branch
    /\ current' = m.current
    /\ items' = m.items
    /\ failedAlarmOn' = m.failedAlarmOn
    /\ failedAlarmOff' = m.failedAlarmOff
    /\ toKoha' = m.toKoha
    /\ quit' = m.quit
    /\ devQueue' = m.devQueue
    /\ runPc' = m.runPc
    /\ last' = [src |-> src, msg |-> msg, resp |-> frame.resp, re |-> frame.re,
                pre |-> state, trace |-> m.trace]

(* ---------------- Run ---------------- *)
\* select case msg := <-c.fromKoha: from the buffer, or straight from the
\* sender when the buffer is empty
RunKoha ==
    /\ runPc = "loop"
    /\ \E w \in WriteOutcomes :
         \/ /\ fromKoha # << >>
            /\ Commit(HandleKoha(Machine, Head(fromKoha), w), "koha",
                      Head(fromKoha), NoFrame)
            /\ fromKoha' = Tail(fromKoha)
            /\ UNCHANGED kohaPc
         \/ /\ fromKoha = << >>
            /\ kohaPc = "send"
            /\ \E msg \in KohaMsgs :
                 Commit(HandleKoha(Machine, msg, w), "koha", msg, NoFrame)
            /\ kohaPc' = "read"
            /\ UNCHANGED fromKoha
    /\ UNCHANGED << rfidconn, synced, conn, fromRFID, inboxCap, quitCap,
                    initPc, initError, rfidPc, rfidResp, devScanning,
                    nKoha, nFrames >>

\* select case resp := <-c.fromRFID
RunRFID ==
    /\ runPc = "loop"
    /\ \E w \in IF rfidconn = "nil" THEN {"nil"} ELSE {"ok", "err"} :
         \/ /\ fromRFID # << >>
            /\ \E sip \in SIPOutcomes(Head(fromRFID).resp.Barcode) :
                 Commit(HandleRFID(Machine, Head(fromRFID).resp, sip, w), "rfid",
                        ZeroMessage, Head(fromRFID))
            /\ fromRFID' = Tail(fromRFID)
            /\ UNCHANGED << rfidPc, rfidResp >>
         \/ /\ fromRFID = << >>
            /\ rfidPc = "send"
            /\ \E sip \in SIPOutcomes(rfidResp.resp.Barcode) :
                 Commit(HandleRFID(Machine, rfidResp.resp, sip, w), "rfid",
                        ZeroMessage, rfidResp)
            /\ rfidPc' = "read"
            /\ rfidResp' = NoFrame
            /\ UNCHANGED fromRFID
    /\ synced' = TRUE
    /\ UNCHANGED << rfidconn, conn, fromKoha, inboxCap, quitCap,
                    initPc, initError, kohaPc, devScanning,
                    nKoha, nFrames >>

\* select case <-c.quit: write the close frame and return
RunQuit ==
    /\ runPc = "loop"
    /\ \/ /\ quit > 0
          /\ quit' = quit - 1
          /\ UNCHANGED << initPc, rfidPc >>
       \/ /\ quit = 0
          /\ initPc = "quit"
          /\ initPc' = "done"
          /\ UNCHANGED << quit, rfidPc >>
       \/ /\ quit = 0
          /\ rfidPc = "quit"
          /\ rfidPc' = "done"
          /\ UNCHANGED << quit, initPc >>
    /\ conn' = IF conn = "open" THEN "closeSent" ELSE conn
    /\ runPc' = "exited"
    /\ last' = [NoLast EXCEPT !.src = "quit", !.pre = state]
    /\ UNCHANGED << actorVars, rfidconn, synced, toKoha, fromKoha, fromRFID,
                    inboxCap, quitCap, initError, kohaPc, rfidResp,
                    devQueue, devScanning, nKoha, nFrames >>

(* ---------------- initRFID ---------------- *)
\* net.Dial; on an error initRFID enters sendToKoha to report it
InitDial ==
    /\ Alive /\ initPc = "dial"
    /\ \/ /\ rfidconn' = "open"
          /\ initPc' = "version"
       \/ /\ initPc' = "report"
          /\ UNCHANGED rfidconn
    /\ UNCHANGED << actorVars, synced, conn, toKoha, fromKoha, fromRFID, quit,
                    inboxCap, quitCap, runPc, initError, kohaPc, rfidPc, rfidResp,
                    devQueue, devScanning, nKoha, nFrames, last >>

\* c.rfidconn.Write(req) of the version command
InitVersion ==
    /\ Alive /\ initPc = "version"
    /\ \/ /\ devQueue' = Append(devQueue, RFIDReq(cmdInitVersion, NoBarcode, ""))
          /\ UNCHANGED initError
       \/ /\ initError' = TRUE
          /\ UNCHANGED devQueue
    /\ initPc' = "read"
    /\ UNCHANGED << actorVars, rfidconn, synced, conn, toKoha, fromKoha, fromRFID,
                    quit, inboxCap, quitCap, runPc, kohaPc, rfidPc,
                    rfidResp, devScanning, nKoha, nFrames, last >>

\* r.Read, ParseResponse and the check of the handshake's outcome; on
\* success the reader task is started and initRFID enters sendToKoha of
\* CONNECT, on a failure it enters sendToKoha to report it
InitRead ==
    /\ Alive /\ initPc = "read"
    /\ \E outcome \in {"ok", "nok", "malformed", "readErr"} :
         /\ outcome # "readErr" => devQueue # << >>
         /\ devQueue' = IF outcome = "readErr" THEN devQueue ELSE Tail(devQueue)
         /\ IF initError \/ outcome # "ok"
            THEN /\ initPc' = "report"
                 /\ UNCHANGED rfidPc
            ELSE /\ rfidPc' = "read"
                 /\ initPc' = "notify"
    /\ UNCHANGED << actorVars, rfidconn, synced, conn, toKoha, fromKoha, fromRFID,
                    quit, inboxCap, quitCap, runPc, initError, kohaPc,
                    rfidResp, devScanning, nKoha, nFrames, last >>

\* sendToKoha(Message{Action: "CONNECT", RFIDError: true}) completes
InitReport ==
    /\ Alive /\ initPc = "report"
    /\ toKoha' = KohaWrite(toKoha, ConnectRFIDError)
    /\ initPc' = "quit"
    /\ UNCHANGED << actorVars, rfidconn, synced, conn, fromKoha, fromRFID, quit,
                    inboxCap, quitCap, runPc, initError, kohaPc, rfidPc,
                    rfidResp, devQueue, devScanning, nKoha, nFrames, last >>

\* c.sendToKoha(Message{Action: "CONNECT"}) completes
InitNotify ==
    /\ Alive /\ initPc = "notify"
    /\ toKoha' = KohaWrite(toKoha, ConnectOK)
    /\ initPc' = "done"
    /\ UNCHANGED << actorVars, rfidconn, synced, conn, fromKoha, fromRFID, quit,
                    inboxCap, quitCap, runPc, initError, kohaPc, rfidPc,
                    rfidResp, devQueue, devScanning, nKoha, nFrames, last >>

\* c.quit <- true into a free buffer slot (the hand-over to a waiting Run is
\* part of RunQuit)
InitQuit ==
    /\ Alive /\ initPc = "quit"
    /\ quit < quitCap
    /\ quit' = quit + 1
    /\ initPc' = "done"
    /\ UNCHANGED << actorVars, rfidconn, synced, conn, toKoha, fromKoha, fromRFID,
                    inboxCap, quitCap, runPc, initError, kohaPc, rfidPc,
                    rfidResp, devQueue, devScanning, nKoha, nFrames, last >>

(* ---------------- readFromKoha ---------------- *)
\* c.conn.ReadMessage: a message (its content is drawn where it is handed
\* over), or an error that ends the task and closes the connection
KohaRead ==
    /\ Alive /\ kohaPc = "read"
    /\ \/ /\ nKoha < MaxKoha
          /\ kohaPc' = "send"
          /\ nKoha' = nKoha + 1
          /\ UNCHANGED conn
       \/ /\ kohaPc' = "done"
          /\ conn' = "closed"
          /\ UNCHANGED nKoha
    /\ UNCHANGED << actorVars, rfidconn, synced, toKoha, fromKoha, fromRFID, quit,
                    inboxCap, quitCap, runPc, initPc, initError, rfidPc, rfidResp,
                    devQueue, devScanning, nFrames, last >>

\* c.fromKoha <- msg into a free buffer slot
KohaSend ==
    /\ Alive /\ kohaPc = "send"
    /\ Len(fromKoha) < inboxCap
    /\ \E msg \in KohaMsgs : fromKoha' = Append(fromKoha, msg)
    /\ kohaPc' = "read"
    /\ UNCHANGED << actorVars, rfidconn, synced, conn, toKoha, fromRFID, quit,
                    inboxCap, quitCap, runPc, initPc, initError, rfidPc,
                    rfidResp, devQueue, devScanning, nKoha, nFrames, last >>

(* ---------------- readFromRFID ---------------- *)
\* the frames the device can have put on the socket: the answer to the
\* oldest unanswered command, or a scan event once scanning has begun (a
\* tag read with its tag id, or a tag that could not be read)
Frames ==
    { Frame(Resp(ok, NoBarcode, ""), Head(devQueue)) :
        ok \in IF devQueue # << >> THEN BOOLEAN ELSE {} }
    \cup { Frame(Resp(TRUE, b, t), NoReq) :
        b \in IF devScanning THEN Barcodes ELSE {}, t \in Tags }
    \cup { Frame(Resp(FALSE, b, ""), NoReq) :
        b \in IF devScanning THEN Barcodes ELSE {} }

\* r.ReadBytes and ParseResponse: a response to hand to Run, or a read error
\* or malformed frame, on which readFromRFID enters sendToKoha to report it
RFIDRead ==
    /\ Alive /\ rfidPc = "read"
    /\ \/ /\ nFrames < MaxFrames
          /\ \E f \in Frames :
               /\ rfidResp' = f
               /\ devQueue' = IF f.re # NoReq THEN Tail(devQueue) ELSE devQueue
               /\ devScanning' = IF f.re.Cmd = cmdBeginScan /\ f.resp.OK
                                 THEN TRUE ELSE devScanning
          /\ rfidPc' = "send"
          /\ nFrames' = nFrames + 1
       \/ /\ rfidPc' = "report"
          /\ UNCHANGED << rfidResp, devQueue, devScanning, nFrames >>
    /\ UNCHANGED << actorVars, rfidconn, synced, conn, toKoha, fromKoha, fromRFID,
                    quit, inboxCap, quitCap, runPc, initPc, initError, kohaPc,
                    nKoha, last >>

\* sendToKoha(Message{Action: "CONNECT", RFIDError: true}) completes
RFIDReport ==
    /\ Alive /\ rfidPc = "report"
    /\ toKoha' = KohaWrite(toKoha, ConnectRFIDError)
    /\ rfidPc' = "quit"
    /\ UNCHANGED << actorVars, rfidconn, synced, conn, fromKoha, fromRFID, quit,
                    inboxCap, quitCap, runPc, initPc, initError, kohaPc,
                    rfidResp, devQueue, devScanning, nKoha, nFrames, last >>

\* c.fromRFID <- resp into a free buffer slot
RFIDSend ==
    /\ Alive /\ rfidPc = "send"
    /\ Len(fromRFID) < inboxCap
    /\ fromRFID' = Append(fromRFID, rfidResp)
    /\ rfidPc' = "read"
    /\ rfidResp' = NoFrame
    /\ UNCHANGED << actorVars, rfidconn, synced, conn, toKoha, fromKoha, quit,
                    inboxCap, quitCap, runPc, initPc, initError, kohaPc,
                    devQueue, devScanning, nKoha, nFrames, last >>

\* c.quit <- true into a free buffer slot
RFIDQuit ==
    /\ Alive /\ rfidPc = "quit"
    /\ quit < quitCap
    /\ quit' = quit + 1
    /\ rfidPc' = "done"
    /\ UNCHANGED << actorVars, rfidconn, synced, conn, toKoha, fromKoha, fromRFID,
                    inboxCap, quitCap, runPc, initPc, initError, kohaPc,
                    rfidResp, devQueue, devScanning, nKoha, nFrames, last >>

Next ==
    \/ RunKoha \/ RunRFID \/ RunQuit
    \/ InitDial \/ InitVersion \/ InitRead \/ InitReport \/ InitNotify \/ InitQuit
    \/ KohaRead \/ KohaSend
    \/ RFIDRead \/ RFIDSend \/ RFIDReport \/ RFIDQuit

Spec == Init /\ [][Next]_vars

(* ---------------- the normalization of scanned barcodes ---------------- *)
\* the barcodes a scan may report: every string over these characters, up to
\* MaxBarcodeLen long
BarcodeChars == {"1", "0", "A"}
StripBarcodes == UNION { [1..n -> BarcodeChars] : n \in 0..MaxBarcodeLen }

\* the station after the handshake, a CHECKIN and the begin-scan reply: it is
\* Scanning, and readFromRFID holds a scan of some barcode for Run
StripInit ==
    /\ state = RFIDCheckin
    /\ branch = "B1"
    /\ current = ZeroMessage
    /\ items = EmptyMap
    /\ failedAlarmOn = EmptyMap
    /\ failedAlarmOff = EmptyMap
    /\ rfidconn = "open"
    /\ synced = TRUE
    /\ conn = "open"
    /\ toKoha = [msg \in UIMsgs |-> IF msg = ConnectOK THEN 1 ELSE 0]
    /\ fromKoha = << >>
    /\ fromRFID = << >>
    /\ quit = 0
    /\ inboxCap \in 0..MaxInboxCap
    /\ quitCap \in 0..MaxQuitCap
    /\ runPc = "loop"
    /\ initPc = "done"
    /\ initError = FALSE
    /\ kohaPc = "read"
    /\ rfidPc = "send"
    /\ \E b \in StripBarcodes :
         rfidResp \in { Frame(Resp(TRUE, b, t), NoReq) : t \in Tags }
                      \cup { Frame(Resp(FALSE, b, ""), NoReq) }
    /\ devQueue = << >>
    /\ devScanning = TRUE
    /\ nKoha = 1
    /\ nFrames = 2
    /\ last = [src |-> "rfid", msg |-> ZeroMessage, resp |-> Resp(TRUE, NoBarcode, ""),
               re |-> RFIDReq(cmdBeginScan, NoBarcode, ""),
               pre |-> RFIDCheckinWaitForBegOK, trace |-> << >>]

\* the scan is handed to Run, which handles it
StripNext == RFIDSend \/ RunRFID

SpecStrip == StripInit /\ [][StripNext]_vars

TypeOK ==
    /\ state \in {RFIDIdle, RFIDCheckinWaitForBegOK, RFIDCheckin,
                  RFIDWaitForCheckinAlarmLeave, RFIDWaitForCheckinAlarmOn,
                  RFIDWaitForEndOK}
    /\ runPc \in {"loop", "blocked", "exited", "panicked"}
    /\ quit \in 0..quitCap
    /\ Len(fromKoha) <= inboxCap /\ Len(fromRFID) <= inboxCap

(* ---------------- properties ---------------- *)
\* this step is Run taking a message from c.fromKoha
KohaHandled ==
    /\ runPc = "loop" /\ last'.src = "koha"
    /\ \/ Len(fromKoha') < Len(fromKoha)
       \/ fromKoha = << >> /\ fromKoha' = << >> /\ kohaPc = "send" /\ kohaPc' = "read"

\* this step is Run taking a response from c.fromRFID
RFIDHandled ==
    /\ runPc = "loop" /\ last'.src = "rfid"
    /\ \/ Len(fromRFID') < Len(fromRFID)
       \/ fromRFID = << >> /\ fromRFID' = << >> /\ rfidPc = "send" /\ rfidPc' = "read"

\* a call of sendToRFID in a handler's trace, whatever the write did
IsDeviceCmd(e) == e.kind \in {"rfid", "rfidErr", "rfidNil"}
NoDeviceCmd(trace) == \A i \in 1..Len(trace) : ~IsDeviceCmd(trace[i])
Sends(trace, cmd) == \E i \in 1..Len(trace) : IsDeviceCmd(trace[i]) /\ trace[i].what = cmd

AlarmWait == {RFIDWaitForCheckinAlarmLeave, RFIDWaitForCheckinAlarmOn}

\* C1: a CHECKIN that arrives while the actor is Scanning is a no-op: it
\* changes neither the state, the branch, the pending items nor the retry
\* maps, and sends no device command.
C1_CheckinOnlyFromIdle ==
    [][(KohaHandled /\ last'.msg.Action = "CHECKIN" /\ state = RFIDCheckin)
         => /\ UNCHANGED << state, branch, items, failedAlarmOn, failedAlarmOff >>
            /\ NoDeviceCmd(last'.trace)]_vars

\* the commands Run has written to the device that are without a response
Outstanding == { i \in 1..Len(devQueue) : devQueue[i].Cmd \in ScanCmds }

\* C2: at most one command sent by the actor is without its device response.
C2_OneOutstandingCommand == Cardinality(Outstanding) <= 1

\* C3: once the actor has handled the device's successful response to an
\* alarm-on or alarm-off command for a barcode, the normalized barcode is a
\* key of neither retry map.
C3_SuccessClearsRetry ==
    (last.src = "rfid" /\ last.re.Cmd \in AlarmCmds /\ last.resp.OK
       /\ last.pre \in AlarmWait)
      => /\ last.re.key \notin DOMAIN failedAlarmOn
         /\ last.re.key \notin DOMAIN failedAlarmOff

\* C4: once the actor has handled the device's failure response to an alarm
\* command, the normalized barcode is in the matching retry map with the tag
\* id of the scan the command was sent for.
C4_FailureKeepsRetry ==
    (last.src = "rfid" /\ last.re.Cmd \in AlarmCmds /\ ~last.resp.OK
       /\ last.pre \in AlarmWait)
      => /\ last.re.Cmd = cmdAlarmOn
              => /\ last.re.key \in DOMAIN failedAlarmOn
                 /\ failedAlarmOn[last.re.key] = last.re.tag
         /\ last.re.Cmd = cmdAlarmLeave
              => /\ last.re.key \in DOMAIN failedAlarmOff
                 /\ failedAlarmOff[last.re.key] = last.re.tag

\* C5: a RETRY-ALARM-ON (RETRY-ALARM-OFF) for a barcode with an entry in the
\* alarm-on (alarm-off) retry map sends alarm-on (alarm-off) to the device
\* and moves the actor to the matching alarm-wait state.
C5_RetryReissues ==
    [][/\ (KohaHandled /\ last'.msg.Action = "RETRY-ALARM-ON"
             /\ last'.msg.Barcode \in DOMAIN failedAlarmOn)
          => /\ Sends(last'.trace, cmdAlarmOn)
             /\ runPc' = "loop" => state' = RFIDWaitForCheckinAlarmOn
       /\ (KohaHandled /\ last'.msg.Action = "RETRY-ALARM-OFF"
             /\ last'.msg.Barcode \in DOMAIN failedAlarmOff)
          => /\ Sends(last'.trace, cmdAlarmLeave)
             /\ runPc' = "loop" => state' = RFIDWaitForCheckinAlarmLeave]_vars

\* C6: a RETRY-ALARM-ON for a barcode with no entry in the alarm-on retry map
\* changes no actor state, in whatever state it arrives: state, branch,
\* current transaction, pending items and both retry maps stay as they are,
\* no device command is sent, nothing is written to the UI and Run goes on.
C6_RetryWithoutEntryIsNoOp ==
    [][(KohaHandled /\ last'.msg.Action = "RETRY-ALARM-ON"
          /\ last'.msg.Barcode \notin DOMAIN failedAlarmOn)
         => /\ UNCHANGED << actorVars, devQueue, toKoha, quit, runPc >>
            /\ last'.trace = << >>]_vars

\* a RETRY-ALARM-ON without entry has been handled in an alarm-wait state,
\* while the retry map holds another barcode
C6_Witness ==
    /\ last.src = "koha" /\ last.msg.Action = "RETRY-ALARM-ON"
    /\ last.msg.Barcode \notin DOMAIN failedAlarmOn
    /\ DOMAIN failedAlarmOn # {}
    /\ last.pre = RFIDWaitForCheckinAlarmOn

\* C7: over the whole run of a station at most one CONNECT message carrying
\* the device-error flag is written to the UI, however many link failures
\* and fatal errors occur.
C7_OneConnectError == toKoha[ConnectRFIDError] <= 1

\* C8: when the actor, waiting for alarm-on, has handled the device's
\* successful reply to its alarm-on command, its state is Scanning again.
C8_AlarmOnReplyReturnsToScanning ==
    (last.src = "rfid" /\ last.re.Cmd = cmdAlarmOn /\ last.resp.OK
       /\ last.pre = RFIDWaitForCheckinAlarmOn)
      => state = RFIDCheckin

\* C9: handling a failed scan in Scanning, the actor queries the backend for
\* the item status first, before any device command, when the normalized
\* barcode differs from the current transaction's; when it is the same the
\* handler makes no backend call and its first step is to send alarm-off.
C9_QueryBeforeAlarm ==
    [][(RFIDHandled /\ state = RFIDCheckin /\ ~last'.resp.OK)
         => LET t == last'.trace
            IN  /\ Len(t) >= 1
                /\ IF stripLeading10(last'.resp.Barcode) # current.Barcode
                   THEN /\ t[1] = Event("sip", "itemStatus", last'.resp.Barcode)
                        /\ \A i \in 2..Len(t) : t[i].kind # "sip"
                        /\ \A i \in 1..Len(t) :
                             IsDeviceCmd(t[i]) => i > 1 /\ t[i].what = cmdAlarmLeave
                   ELSE /\ \A i \in 1..Len(t) : t[i].kind # "sip"
                        /\ IsDeviceCmd(t[1]) /\ t[1].what = cmdAlarmLeave]_vars

\* a failed scan of a new barcode has been handled: status query, then alarm-off
C9_Witness ==
    /\ last.src = "rfid" /\ last.pre = RFIDCheckin /\ ~last.resp.OK
    /\ last.resp.Barcode = <<"1", "0", "A">>
    /\ last.trace = << Event("sip", "itemStatus", <<"1", "0", "A">>),
                       Event("rfid", cmdAlarmLeave, <<"A">>) >>
    /\ state = RFIDWaitForCheckinAlarmLeave

\* a failed scan of the current transaction's barcode has been handled:
\* alarm-off and no query
C9_WitnessSame ==
    /\ last.src = "rfid" /\ last.pre = RFIDCheckin /\ ~last.resp.OK
    /\ last.resp.Barcode = <<"1", "0">>
    /\ last.trace = << Event("rfid", cmdAlarmLeave, NoBarcode) >>

\* the handshake has been answered successfully (initRFID started the reader)
HandshakeDone == rfidPc # "off"

\* C10: a scan command is written to the device only after the version
\* command has received its successful response.
C10_NoScanBeforeHandshake ==
    [][(Len(devQueue') > Len(devQueue)
          /\ devQueue'[Len(devQueue')].Cmd \in ScanCmds)
         => HandshakeDone]_vars

\* a backend call of the handler returned an error
BackendFailed(trace) == \E i \in 1..Len(trace) : trace[i].kind = "sipErr"

\* C11: while Scanning, a scan the device reported as failed, and a scan
\* whose backend checkin result is flagged unknown or transaction-failed,
\* never make the actor send alarm-on or add to the alarm-on retry map; every
\* device command of the step is alarm-off, and one is sent unless the
\* backend call itself failed.
C11_NoAlarmOnForFailedCheckin ==
    [][ /\ RFIDHandled /\ state = RFIDCheckin
        /\ \/ ~last'.resp.OK
           \/ /\ ~BackendFailed(last'.trace)
              /\ current'.Unknown \/ current'.TransactionFailed
        => /\ ~Sends(last'.trace, cmdAlarmOn)
           /\ \A i \in 1..Len(last'.trace) :
                 IsDeviceCmd(last'.trace[i]) => last'.trace[i].what = cmdAlarmLeave
           /\ ~BackendFailed(last'.trace) => Sends(last'.trace, cmdAlarmLeave)
           /\ failedAlarmOn' = failedAlarmOn ]_vars

\* a successful scan whose checkin the backend flagged transaction-failed
\* (and not unknown) has been answered with alarm-off
C11_Witness ==
    /\ last.src = "rfid" /\ last.pre = RFIDCheckin /\ last.resp.OK
    /\ current.TransactionFailed /\ ~current.Unknown
    /\ last.trace = << Event("sip", "checkin", last.resp.Barcode),
                       Event("rfid", cmdAlarmLeave, stripLeading10(last.resp.Barcode)) >>
    /\ state = RFIDWaitForCheckinAlarmLeave
    /\ failedAlarmOn = EmptyMap

\* the handler's trace holds a failed backend call of this kind
QueryFailed(trace, query) ==
    \E i \in 1..Len(trace) : trace[i].kind = "sipErr" /\ trace[i].what = query

\* the handler signalled shutdown, or blocked trying to
SignalsQuit(trace) == \E i \in 1..Len(trace) : trace[i].kind = "quit"

\* C12 as stated: after any failed backend call, checkin or item-status, the
\* UI is sent a message carrying the failing action (CHECKIN) and the
\* backend-error flag, no shutdown is signalled and Run stays in its loop.
C12_BackendFailureKeepsStation ==
    [][ RFIDHandled /\ BackendFailed(last'.trace)
        => /\ toKoha' = KohaWrite(toKoha, CheckinSIPError)
           /\ ~SignalsQuit(last'.trace)
           /\ quit' = quit
           /\ runPc' = "loop" ]_vars

\* C12, amended: a failed checkin call is reported to the UI as CHECKIN with
\* the backend-error flag, signals no shutdown and leaves Run in its loop; a
\* failed item-status query is reported as CONNECT with the backend-error
\* flag and signals shutdown.
C12_CheckinFailureKeepsStation ==
    [][ RFIDHandled /\ BackendFailed(last'.trace)
        => IF QueryFailed(last'.trace, "checkin")
           THEN /\ toKoha' = KohaWrite(toKoha, CheckinSIPError)
                /\ ~SignalsQuit(last'.trace)
                /\ quit' = quit
                /\ runPc' = "loop"
           ELSE /\ toKoha' = KohaWrite(toKoha, ConnectSIPError)
                /\ SignalsQuit(last'.trace)
                /\ \/ quit' = quit + 1 /\ runPc' = "loop"
                   \/ quit' = quit /\ runPc' = "blocked" ]_vars

\* two checkin calls in a row have failed and Run is still in its loop, with
\* no shutdown signalled
C12_Witness ==
    /\ last.src = "rfid" /\ QueryFailed(last.trace, "checkin")
    /\ toKoha[CheckinSIPError] = 2
    /\ quit = 0 /\ runPc = "loop"

\* a task is at its send on c.quit and the channel has no free slot
SignallerWaits == (initPc = "quit" \/ rfidPc = "quit") /\ quit >= quitCap

\* C13: a shutdown signal never sticks: Run is never blocked on its own send
\* on c.quit (it is the channel's only receiver, so it would never leave its
\* loop), and no task is left at its send on c.quit, with no free slot, once
\* Run has stopped receiving.
C13_ShutdownSignalNeverSticks ==
    /\ runPc # "blocked"
    /\ ~(runPc = "exited" /\ SignallerWaits)

\* C14: once Run has left its loop neither socket is open any more: the UI
\* socket has at least been sent its close frame and the device socket, if
\* it was ever dialled, is closed (which is what would unblock the device
\* reader's read).
C14_ExitClosesSockets ==
    runPc = "exited" => conn # "open" /\ rfidconn # "open"

\* key is barcode with one leading "10" taken off, or barcode itself when it
\* does not start with "10"
OneLeading10Removed(barcode, key) ==
    IF Len(barcode) >= 2 /\ barcode[1] = "1" /\ barcode[2] = "0"
    THEN barcode = << "1", "0" >> \o key
    ELSE key = barcode

\* C15: the key under which a scan handled in state Scanning is entered into
\* the pending items and the retry maps is the scanned barcode with exactly
\* one leading "10" removed: a second "10" right behind the first stays.
C15_StripsOneLeading10 ==
    last.src = "rfid" /\ last.pre = RFIDCheckin
    => \A key \in DOMAIN items \cup DOMAIN failedAlarmOn \cup DOMAIN failedAlarmOff :
         OneLeading10Removed(last.resp.Barcode, key)

\* the scan of "1010" has been entered under the key "10"
C15_Witness ==
    /\ last.src = "rfid" /\ last.pre = RFIDCheckin
    /\ last.resp.Barcode = << "1", "0", "1", "0" >>
    /\ DOMAIN failedAlarmOn = { << "1", "0" >> }
    /\ DOMAIN items = { << "1", "0" >> }

\* the state the normalization's specification starts from, for the barcodes
\* of Spec
StripInitReached ==
    /\ state = RFIDCheckin /\ branch = "B1" /\ current = ZeroMessage
    /\ items = EmptyMap /\ failedAlarmOn = EmptyMap /\ failedAlarmOff = EmptyMap
    /\ rfidconn = "open" /\ synced /\ conn = "open"
    /\ toKoha = [msg \in UIMsgs |-> IF msg = ConnectOK THEN 1 ELSE 0]
    /\ fromKoha = << >> /\ fromRFID = << >> /\ quit = 0
    /\ runPc = "loop" /\ initPc = "done" /\ ~initError /\ kohaPc = "read"
    /\ rfidPc = "send" /\ rfidResp.re = NoReq /\ rfidResp.resp.OK
    /\ devQueue = << >> /\ devScanning /\ nKoha = 1 /\ nFrames = 2
    /\ last = [src |-> "rfid", msg |-> ZeroMessage, resp |-> Resp(TRUE, NoBarcode, ""),
               re |-> RFIDReq(cmdBeginScan, NoBarcode, ""),
               pre |-> RFIDCheckinWaitForBegOK, trace |-> << >>]

\* C16: an END taken in Scanning or an alarm-wait state sends a device command
\* (end scan session) and moves the actor to RFIDWaitForEndOK; an END taken
\* in any other state changes nothing and sends nothing; and the device
\* response taken in RFIDWaitForEndOK returns the actor to RFIDIdle with Run
\* still in its loop.
C16_EndOnlyWhileScanning ==
    [][ /\ KohaHandled /\ last'.msg.Action = "END"
           => IF state \in {RFIDCheckin} \cup AlarmWait
              THEN ~NoDeviceCmd(last'.trace) /\ state' = RFIDWaitForEndOK
              ELSE NoDeviceCmd(last'.trace) /\ state' = state
        /\ RFIDHandled /\ state = RFIDWaitForEndOK
           => state' = RFIDIdle /\ runPc' = "loop" ]_vars

\* the handler wrote a message with this action to the UI
Notifies(trace, action) ==
    \E i \in 1..Len(trace) : trace[i].kind = "ui" /\ trace[i].what = action

\* C17: when the checkin call for a successful scan taken in Scanning fails,
\* the UI is written the CHECKIN message with the backend-error flag, the
\* actor stays Scanning, no device command is sent and the pending items and
\* both retry maps are unchanged.
C17_FailedCheckinStaysScanning ==
    [][ /\ RFIDHandled /\ state = RFIDCheckin /\ last'.resp.OK
        /\ QueryFailed(last'.trace, "checkin")
        => /\ Notifies(last'.trace, "CHECKIN")
           /\ toKoha' = KohaWrite(toKoha, CheckinSIPError)
           /\ state' = RFIDCheckin
           /\ NoDeviceCmd(last'.trace) /\ devQueue' = devQueue
           /\ items' = items
           /\ failedAlarmOn' = failedAlarmOn
           /\ failedAlarmOff' = failedAlarmOff ]_vars

\* the first failed checkin call of a successful scan has been reported and
\* the actor is still Scanning
C17_Witness ==
    /\ last.src = "rfid" /\ last.pre = RFIDCheckin /\ last.resp.OK
    /\ QueryFailed(last.trace, "checkin") /\ Notifies(last.trace, "CHECKIN")
    /\ toKoha[CheckinSIPError] = 1
    /\ state = RFIDCheckin /\ devQueue = << >>

\* C18: when the device answers an alarm-on or alarm-off command with a
\* failure while the actor waits for that answer, the actor writes a CHECKIN
\* message (carrying the device-error flag) to the UI, stays in the same
\* alarm-wait state, and Run stays in its loop with no shutdown signalled.
C18_AlarmFailureNotifiesUI ==
    [][ /\ RFIDHandled /\ state \in AlarmWait
        /\ last'.re.Cmd \in AlarmCmds /\ ~last'.resp.OK
        => /\ Notifies(last'.trace, "CHECKIN")
           /\ state' = state
           /\ ~SignalsQuit(last'.trace) /\ runPc' = "loop" ]_vars

\* the tasks that are inside sendToKoha, between its entry and its return
UIWriters ==
    (IF initPc \in {"notify", "report"} THEN {"initRFID"} ELSE {})
    \cup (IF rfidPc = "report" THEN {"readFromRFID"} ELSE {})

\* C19: at most one task of the station is writing to the UI socket at any
\* time.
C19_OneUIWriter == Cardinality(UIWriters) <= 1

\* C20: before and after every step each key of the alarm-on retry map is a
\* key of the pending items, and a step that changes either retry map is Run
\* handling a device response (never a UI action, never another task).
C20_RetryKeysArePending ==
    [][ /\ DOMAIN failedAlarmOn \subseteq DOMAIN items
        /\ DOMAIN failedAlarmOn' \subseteq DOMAIN items'
        /\ (failedAlarmOn' # failedAlarmOn \/ failedAlarmOff' # failedAlarmOff)
           => RFIDHandled ]_vars

\* with an entry in the alarm-on retry map, Run has just handled a UI retry
\* request for that entry's barcode
C20_Witness ==
    /\ last.src = "koha" /\ last.msg.Action = "RETRY-ALARM-ON"
    /\ last.msg.Barcode \in DOMAIN failedAlarmOn
    /\ last.msg.Barcode \in DOMAIN items

====
